---- MODULE Spec2Model ----
(***************************************************************************)
(* KoradPS: the serial driver of src/koradPS.py (class KoradPS) as a state *)
(* machine.  One action per public method; every action is the whole      *)
(* method, from the write of the command to the return or the exception.   *)
(*                                                                         *)
(* Text is a sequence of one-character strings, bytes are integers 0..255. *)
(* Numbers are exact decimals counted in units of 10^-4 (a 5-byte payload  *)
(* has at most four fractional digits); the short decimals used here go    *)
(* through Python's float()/repr() unchanged, so the exact value stands    *)
(* for the double.  Times are milliseconds.                                *)
(***************************************************************************)
EXTENDS Integers, Sequences, FiniteSets, TLC

(***************************************************************************)
(* Bounds of the model.                                                    *)
(***************************************************************************)
MaxSlot    == 2     \* panel memories 1..MaxSlot
MaxJitter  == 1     \* time.sleep(d) returns after d..d+MaxJitter ms
MaxWait    == 1     \* a complete answer arrives within 0..MaxWait ms

Channels == {1, 2}  \* the channel an operation is about, and another one
Slots    == 1..MaxSlot

(***************************************************************************)
(* Program constants.                                                      *)
(***************************************************************************)
ResponseTimeMs == 50    \* self.responseTime = 0.050
ReadLen        == 5     \* self.ser.read(5)
StatusLen      == 2     \* self.ser.read(2)
TimeoutMs      == 1000  \* serial.Serial(..., timeout=1)

Min(a, b) == IF a < b THEN a ELSE b

Pow10(k) == CASE k = 0 -> 1 [] k = 1 -> 10 [] k = 2 -> 100 [] k = 3 -> 1000
              [] OTHER -> 10000

Scale == Pow10(ReadLen - 1)    \* units per 1.0

(***************************************************************************)
(* Characters and bytes: str.encode() / bytes.decode() on ASCII text.      *)
(***************************************************************************)
DigitChars == <<"0", "1", "2", "3", "4", "5", "6", "7", "8", "9">>

Ord(c) ==
  CASE c = "\n" -> 10 [] c = " " -> 32 [] c = "*" -> 42 [] c = "+" -> 43
    [] c = "-" -> 45 [] c = "." -> 46 [] c = "0" -> 48 [] c = "1" -> 49
    [] c = "2" -> 50 [] c = "3" -> 51 [] c = "4" -> 52 [] c = "5" -> 53
    [] c = "6" -> 54 [] c = "7" -> 55 [] c = "8" -> 56 [] c = "9" -> 57
    [] c = ":" -> 58 [] c = "?" -> 63 [] c = "A" -> 65 [] c = "C" -> 67
    [] c = "D" -> 68 [] c = "E" -> 69 [] c = "F" -> 70 [] c = "I" -> 73
    [] c = "K" -> 75 [] c = "L" -> 76 [] c = "N" -> 78 [] c = "O" -> 79
    [] c = "P" -> 80 [] c = "R" -> 82 [] c = "S" -> 83 [] c = "T" -> 84
    [] c = "U" -> 85 [] c = "V" -> 86 [] c = "a" -> 97 [] c = "e" -> 101
    [] c = "f" -> 102 [] c = "i" -> 105 [] c = "l" -> 108
    [] c = "n" -> 110 [] c = "o" -> 111 [] c = "r" -> 114
    [] c = "s" -> 115 [] c = "u" -> 117

Chr(b) ==
  CASE b = 10 -> "\n" [] b = 32 -> " " [] b = 42 -> "*" [] b = 43 -> "+"
    [] b = 45 -> "-" [] b = 46 -> "." [] b = 48 -> "0" [] b = 49 -> "1"
    [] b = 50 -> "2" [] b = 51 -> "3" [] b = 52 -> "4" [] b = 53 -> "5"
    [] b = 54 -> "6" [] b = 55 -> "7" [] b = 56 -> "8" [] b = 57 -> "9"
    [] b = 58 -> ":" [] b = 63 -> "?" [] b = 65 -> "A" [] b = 67 -> "C"
    [] b = 68 -> "D" [] b = 69 -> "E" [] b = 70 -> "F" [] b = 73 -> "I"
    [] b = 75 -> "K" [] b = 76 -> "L" [] b = 78 -> "N" [] b = 79 -> "O"
    [] b = 80 -> "P" [] b = 82 -> "R" [] b = 83 -> "S" [] b = 84 -> "T"
    [] b = 85 -> "U" [] b = 86 -> "V" [] b = 97 -> "a" [] b = 101 -> "e"
    [] b = 102 -> "f" [] b = 105 -> "i" [] b = 108 -> "l"
    [] b = 110 -> "n" [] b = 111 -> "o" [] b = 114 -> "r"
    [] b = 115 -> "s" [] b = 117 -> "u"

Encode(s) == [i \in 1..Len(s) |-> Ord(s[i])]

Decode(bs) == [i \in 1..Len(bs) |-> Chr(bs[i])]

(***************************************************************************)
(* Python values handed to the methods, and '{}'.format(value).            *)
(***************************************************************************)
PyNone     == [t |-> "None",  v |-> 0]
PyInt(n)   == [t |-> "int",   v |-> n]
PyFloat(u) == [t |-> "float", v |-> u]     \* the float u / Scale
PyBool(b)  == [t |-> "bool",  v |-> IF b THEN 1 ELSE 0]
PyNan      == [t |-> "nan",   v |-> 0]
PyInf(neg) == [t |-> "inf",   v |-> IF neg THEN -1 ELSE 1]

RECURSIVE NatStr(_)
NatStr(n) == IF n < 10 THEN <<DigitChars[n + 1]>>
             ELSE NatStr(n \div 10) \o <<DigitChars[(n % 10) + 1]>>

RECURSIVE FracStr(_, _)
\* the fractional digits of u units out of unit, trailing zeros dropped
FracStr(u, unit) == IF u = 0 \/ unit = 1 THEN <<>>
                    ELSE <<DigitChars[(u * 10) \div unit + 1]>>
                         \o FracStr((u * 10) % unit, unit)

\* repr() of a non-negative float with at most four decimals: 2.5, 12.34, 0.0
FloatStr(u) == NatStr(u \div Scale) \o <<".">>
               \o (IF u % Scale = 0 THEN <<"0">> ELSE FracStr(u % Scale, Scale))

\* '{:.0f}'-like formatting that would drop the fraction of a float
FormatWhole(x) == IF x.t = "float" THEN NatStr(x.v \div Scale) ELSE NatStr(x.v)

Format(x) ==
  CASE x.t = "int"   -> NatStr(x.v)
    [] x.t = "float" -> FloatStr(x.v)
    [] x.t = "bool"  -> IF x.v = 1 THEN <<"T", "r", "u", "e">>
                                   ELSE <<"F", "a", "l", "s", "e">>
    [] OTHER         -> <<"N", "o", "n", "e">>

\* the value compared numerically (True == 1, 5 == 5.0)
Units(x) == IF x.t = "float" THEN x.v ELSE x.v * Scale

(***************************************************************************)
(* float(str): surrounding whitespace is stripped; an optional sign; then  *)
(* nan, inf, infinity (any case) or digits with at most one point and at   *)
(* least one digit.  The exponent and digit-separator forms need 'e' or    *)
(* '_', which no payload of the model contains.                            *)
(***************************************************************************)
Whitespace == {" ", "\n"}

RECURSIVE LStrip(_)
LStrip(s) == IF s # <<>> /\ Head(s) \in Whitespace THEN LStrip(Tail(s)) ELSE s

RECURSIVE RStrip(_)
RStrip(s) == IF s # <<>> /\ s[Len(s)] \in Whitespace
             THEN RStrip(SubSeq(s, 1, Len(s) - 1)) ELSE s

Strip(s) == RStrip(LStrip(s))

IsDigit(c) == c \in {"0", "1", "2", "3", "4", "5", "6", "7", "8", "9"}

DigitVal(c) == Ord(c) - Ord("0")

Lower(c) == CASE c = "N" -> "n" [] c = "A" -> "a" [] c = "I" -> "i"
              [] c = "F" -> "f" [] OTHER -> c

LowerStr(s) == [i \in 1..Len(s) |-> Lower(s[i])]

RECURSIVE DigitsValue(_)
DigitsValue(s) == IF s = <<>> THEN 0
                  ELSE DigitsValue(SubSeq(s, 1, Len(s) - 1)) * 10 + DigitVal(s[Len(s)])

\* digits with at most one point and at least one digit
IsFloatNumber(s) ==
  /\ \A i \in 1..Len(s) : IsDigit(s[i]) \/ s[i] = "."
  /\ Cardinality({i \in 1..Len(s) : s[i] = "."}) <= 1
  /\ \E i \in 1..Len(s) : IsDigit(s[i])

\* where the point of such a text is, Len(s) + 1 when it has none
PointAt(s) == IF \E i \in 1..Len(s) : s[i] = "."
              THEN CHOOSE i \in 1..Len(s) : s[i] = "." ELSE Len(s) + 1

\* the value in units of the text with its point at p (at most four decimals)
UnitsAt(s, p) ==
  DigitsValue(SubSeq(s, 1, p - 1)) * Scale
  + DigitsValue(SubSeq(s, p + 1, Len(s)))
    * Pow10((ReadLen - 1) - (IF p > Len(s) THEN 0 ELSE Len(s) - p))

FloatNumberUnits(s) == UnitsAt(s, PointAt(s))

Return(x) == [kind |-> "return", exc |-> "", val |-> x]
Raise(e)  == [kind |-> "raise", exc |-> e, val |-> PyNone]

\* float() of a text without surrounding whitespace and without its sign
FloatUnsigned(neg, u) ==
  IF LowerStr(u) = <<"n", "a", "n">> THEN Return(PyNan)
  ELSE IF LowerStr(u) = <<"i", "n", "f">> THEN Return(PyInf(neg))
  ELSE IF IsFloatNumber(u)
       THEN Return(PyFloat(IF neg THEN 0 - FloatNumberUnits(u) ELSE FloatNumberUnits(u)))
  ELSE Raise("ValueError")

\* float() of a text without surrounding whitespace
FloatStripped(t) ==
  IF t # <<>> /\ Head(t) \in {"+", "-"} THEN FloatUnsigned(Head(t) = "-", Tail(t))
  ELSE FloatUnsigned(FALSE, t)

float(s) == FloatStripped(Strip(s))

(***************************************************************************)
(* bin(n) and ord(bytes).                                                  *)
(***************************************************************************)
RECURSIVE BinDigits(_)
BinDigits(n) == IF n < 2 THEN <<DigitChars[n + 1]>>
                ELSE BinDigits(n \div 2) \o <<DigitChars[(n % 2) + 1]>>

bin(n) == <<"0", "b">> \o BinDigits(n)

(***************************************************************************)
(* Command texts.                                                          *)
(***************************************************************************)
ISET   == <<"I", "S", "E", "T">>
VSET   == <<"V", "S", "E", "T">>
IOUT   == <<"I", "O", "U", "T">>
VOUT   == <<"V", "O", "U", "T">>
OUT    == <<"O", "U", "T">>
RCL    == <<"R", "C", "L">>
SAV    == <<"S", "A", "V">>
OCP    == <<"O", "C", "P">>
STATUS == <<"S", "T", "A", "T", "U", "S", "?">>
IDN    == <<"*", "I", "D", "N", "?">>

(***************************************************************************)
(* The state.                                                              *)
(*   responseTime  self.responseTime, in ms                                *)
(*   inbuf         bytes received on the port and not yet read             *)
(*   dev           the supply at the other end: its limits per channel     *)
(*   sinceSet      ms since the last command written by send(), -1 before  *)
(*                 the first one; it stops counting at responseTime, which *)
(*                 then reads "the response time or more"                  *)
(*   lastOp        the method call that ended last: what it was given,     *)
(*                 wrote, read and returned                                *)
(*   hist          the value last passed to vset / iset per channel        *)
(*   feed          what a faulty line delivers to the next read            *)
(***************************************************************************)
VARIABLES responseTime, inbuf, dev, sinceSet, lastOp, hist, feed

vars == <<responseTime, inbuf, dev, sinceSet, lastOp, hist, feed>>

(***************************************************************************)
(* The supply (external): it takes each write as one command, keeps the    *)
(* limits it is sent, answers a limit query with the stored limit as five  *)
(* bytes DD.DD, an output query with a measurement, STATUS? with two bytes *)
(* and *IDN? with one line, and sends nothing for any other command.       *)
(***************************************************************************)
SetValues     == {PyInt(0), PyFloat(25000)}          \* 0 and 2.50
MeasValues    == {0, 35000}                          \* 00.00 and 03.50
StatusAnswers == {<<0, 1>>, <<1, 0>>, <<65, 1>>}
IdLine        == Encode(<<"K", "D", "\n">>)

DeviceDigit(h, k) == DigitChars[((h \div k) % 10) + 1]

\* u units as the five bytes DD.DD
DeviceFormat(u) ==
  Encode(<<DeviceDigit(u \div (Scale \div 100), 1000), DeviceDigit(u \div (Scale \div 100), 100),
           ".",
           DeviceDigit(u \div (Scale \div 100), 10), DeviceDigit(u \div (Scale \div 100), 1)>>)

\* where the : or ? after the four-letter verb is, Len(s) + 1 when there is none
SepAt(s) ==
  IF \E i \in 5..Len(s) : s[i] \in {":", "?"}
  THEN CHOOSE i \in 5..Len(s) :
         s[i] \in {":", "?"} /\ \A j \in 5..(i - 1) : s[j] \notin {":", "?"}
  ELSE Len(s) + 1

\* the channel a text of digits names, 0 when it names none
ChannelOf(chs) ==
  IF chs # <<>> /\ \A i \in 1..Len(chs) : IsDigit(chs[i]) THEN DigitsValue(chs) ELSE 0

SplitAt(s, p) ==
  [verb |-> SubSeq(s, 1, Min(4, Len(s))),
   ch   |-> ChannelOf(SubSeq(s, 5, p - 1)),
   sep  |-> IF p <= Len(s) THEN s[p] ELSE "",
   arg  |-> SubSeq(s, p + 1, Len(s))]

ParseText(s) == SplitAt(s, SepAt(s))

\* a command split after its four-letter verb: [verb, ch, sep, arg]
DeviceParse(cmd) == ParseText(Decode(cmd))

DeviceStep(d, cmd, c, out) ==
  IF cmd = Encode(STATUS) THEN [dev |-> d, answer |-> out]
  ELSE IF cmd = Encode(IDN) THEN [dev |-> d, answer |-> IdLine]
  ELSE IF c.ch \notin Channels THEN [dev |-> d, answer |-> <<>>]
  ELSE IF c.sep = ":" /\ c.verb \in {VSET, ISET} /\ IsFloatNumber(c.arg)
  THEN [dev |-> IF c.verb = VSET
                THEN [d EXCEPT !.vset[c.ch] = FloatNumberUnits(c.arg)]
                ELSE [d EXCEPT !.iset[c.ch] = FloatNumberUnits(c.arg)],
        answer |-> <<>>]
  ELSE IF c.sep = "?" /\ c.arg = <<>>
  THEN [dev |-> d,
        answer |-> CASE c.verb = VSET -> DeviceFormat(d.vset[c.ch])
                     [] c.verb = ISET -> DeviceFormat(d.iset[c.ch])
                     [] c.verb \in {IOUT, VOUT} -> out
                     [] OTHER -> <<>>]
  ELSE [dev |-> d, answer |-> <<>>]

\* the supply after the command, and what it sends back; out is what it
\* would report now for an output or status query
Device(d, cmd, out) == DeviceStep(d, cmd, DeviceParse(cmd), out)

(***************************************************************************)
(* The line between the session and the supply.  An echo line carries the  *)
(* supply's answers; a faulty line delivers the bytes it is given, which   *)
(* may be short or no number at all, and leaves the supply alone.          *)
(***************************************************************************)
EchoLine(out)     == [echo |-> TRUE, bytes |-> out]
FaultyLine(bytes) == [echo |-> FALSE, bytes |-> bytes]

Exchange(line, cmd) ==
  IF line.echo THEN Device(dev, cmd, line.bytes)
  ELSE [dev |-> dev, answer |-> line.bytes]

(***************************************************************************)
(* serial.Serial: read(n) returns the first n bytes received, or the fewer *)
(* that arrived before the timeout; readline() returns up to and with the  *)
(* first newline, or what arrived before the timeout.                      *)
(***************************************************************************)
SerRead(buf, n) ==
  [got  |-> SubSeq(buf, 1, Min(n, Len(buf))),
   rest |-> SubSeq(buf, Min(n, Len(buf)) + 1, Len(buf))]

\* where the first newline of buf is, Len(buf) when it has none
LineEnd(buf) ==
  IF \E i \in 1..Len(buf) : buf[i] = Ord("\n")
  THEN CHOOSE i \in 1..Len(buf) :
         buf[i] = Ord("\n") /\ \A j \in 1..(i - 1) : buf[j] # Ord("\n")
  ELSE Len(buf)

SerReadline(buf) ==
  [got  |-> SubSeq(buf, 1, LineEnd(buf)),
   rest |-> SubSeq(buf, LineEnd(buf) + 1, Len(buf))]

\* a sleep that returns at once, which time.sleep(d) never does for d > 0
NoSleep(d) == {0}

\* time.sleep(d): the durations it may take
sleep(d) == d..(d + MaxJitter)

\* how long a blocking read took: w when the answer was complete, else the timeout
Blocked(complete, w) == IF complete THEN w ELSE TimeoutMs

Saturate(t) == Min(t, responseTime)

\* what a call did on the port, in program order
Write(bytes)   == [dir |-> "write", n |-> Len(bytes), bytes |-> bytes]
Read(n, bytes) == [dir |-> "read", n |-> n, bytes |-> bytes]

\* the end of a method call: the new state.  e is what the call did on the
\* port and returned, x the supply's side of the exchange
Finish(op, val, channel, e, x) ==
  /\ lastOp' = [op |-> op, val |-> val, channel |-> channel,
                io |-> e.io, result |-> e.result,
                sent |-> e.sent, gap |-> sinceSet, answer |-> x.answer]
  /\ inbuf' = e.rest
  /\ dev' = x.dev
  /\ sinceSet' = IF e.sent THEN Saturate(e.held)
                 ELSE IF sinceSet < 0 THEN sinceSet
                 ELSE Saturate(sinceSet + e.held)
  /\ hist' = IF op \in {"vset", "iset"} /\ e.sent
             THEN [hist EXCEPT ![op][channel] = val] ELSE hist
  /\ UNCHANGED <<responseTime, feed>>

(***************************************************************************)
(* send() and read().                                                      *)
(***************************************************************************)
send(op, val, channel, cmd, line) ==
  \E x \in {Exchange(line, Encode(cmd))} :
  \E slept \in sleep(responseTime) :
    Finish(op, val, channel,
           [io     |-> <<Write(Encode(cmd))>>,
            rest   |-> inbuf \o x.answer,
            result |-> Return(PyNone),
            held   |-> slept,
            sent   |-> TRUE], x)

\* a read() that would ask again after a payload it cannot parse
readWithRetry(op, val, channel, cmd, line) ==
  \E x \in {Exchange(line, Encode(cmd))} :
  \E r \in {SerRead(inbuf \o x.answer, ReadLen)} :
  \E w \in 0..MaxWait :
    Finish(op, val, channel,
           [io     |-> IF float(Decode(r.got)).kind = "raise"
                       THEN <<Write(Encode(cmd)), Read(ReadLen, r.got),
                              Write(Encode(cmd)), Read(ReadLen, <<>>)>>
                       ELSE <<Write(Encode(cmd)), Read(ReadLen, r.got)>>,
            rest   |-> r.rest,
            result |-> float(Decode(r.got)),
            held   |-> Blocked(Len(r.got) = ReadLen, w),
            sent   |-> FALSE], x)

read(op, val, channel, cmd, line) ==
  \E x \in {Exchange(line, Encode(cmd))} :
  \E r \in {SerRead(inbuf \o x.answer, ReadLen)} :
  \E w \in 0..MaxWait :
    Finish(op, val, channel,
           [io     |-> <<Write(Encode(cmd)), Read(ReadLen, r.got)>>,
            rest   |-> r.rest,
            result |-> float(Decode(r.got)),
            held   |-> Blocked(Len(r.got) = ReadLen, w),
            sent   |-> FALSE], x)

(***************************************************************************)
(* The methods of KoradPS.                                                 *)
(***************************************************************************)
\* the test `if amps:` instead of `if amps != None:`
Truthy(x) == x.t # "None" /\ x.v # 0

\* amps != None
NotNone(x) == x.t # "None"

iset(amps, channel, line) ==
  IF NotNone(amps)
  THEN send("iset", amps, channel, ISET \o Format(PyInt(channel)) \o <<":">> \o Format(amps), line)
  ELSE read("iset", amps, channel, ISET \o Format(PyInt(channel)) \o <<"?">>, line)

vset(volts, channel, line) ==
  IF NotNone(volts)
  THEN send("vset", volts, channel, VSET \o Format(PyInt(channel)) \o <<":">> \o Format(volts), line)
  ELSE read("vset", volts, channel, VSET \o Format(PyInt(channel)) \o <<"?">>, line)

iout(channel, line) == read("iout", PyNone, channel, IOUT \o Format(PyInt(channel)) \o <<"?">>, line)

vout(channel, line) == read("vout", PyNone, channel, VOUT \o Format(PyInt(channel)) \o <<"?">>, line)

on(line) == send("on", PyNone, 0, OUT \o <<"1">>, line)

off(line) == send("off", PyNone, 0, OUT \o <<"0">>, line)

\* ord(response): defined on exactly one byte
ord(response) == IF Len(response) = 1 THEN Return(PyInt(response[1]))
                 ELSE Raise("TypeError")

StatusReading(mode, output) == [t |-> "status", v |-> 0, mode |-> mode, output |-> output]

\* the reading from b = bin(ord(response)): mode from b[2], output from b[-1]
StatusOf(b) ==
  Return(StatusReading(
    IF b[3] = "0" THEN "CC" ELSE IF b[3] = "1" THEN "CV" ELSE b[3],
    IF b[Len(b)] = "0" THEN "OFF" ELSE IF b[Len(b)] = "1" THEN "ON" ELSE b[Len(b)]))

StatusDecode(response) ==
  IF ord(response).kind = "raise" THEN ord(response)
  ELSE StatusOf(bin(ord(response).val.v))

\* a status() that would ask the port for the one byte ord() accepts
statusOneByte(line) ==
  \E x \in {Exchange(line, Encode(STATUS))} :
  \E r \in {SerRead(inbuf \o x.answer, StatusLen - 1)} :
  \E w \in 0..MaxWait :
    Finish("status", PyNone, 0,
           [io     |-> <<Write(Encode(STATUS)), Read(StatusLen - 1, r.got)>>,
            rest   |-> r.rest,
            result |-> StatusDecode(r.got),
            held   |-> Blocked(Len(r.got) = StatusLen - 1, w),
            sent   |-> FALSE], x)

status(line) ==
  \E x \in {Exchange(line, Encode(STATUS))} :
  \E r \in {SerRead(inbuf \o x.answer, StatusLen)} :
  \E w \in 0..MaxWait :
    Finish("status", PyNone, 0,
           [io     |-> <<Write(Encode(STATUS)), Read(StatusLen, r.got)>>,
            rest   |-> r.rest,
            result |-> StatusDecode(r.got),
            held   |-> Blocked(Len(r.got) = StatusLen, w),
            sent   |-> FALSE], x)

id(line) ==
  \E x \in {Exchange(line, Encode(IDN))} :
  \E r \in {SerReadline(inbuf \o x.answer)} :
  \E w \in 0..MaxWait :
    Finish("id", PyNone, 0,
           [io     |-> <<Write(Encode(IDN)), Read(-1, r.got)>>,
            rest   |-> r.rest,
            result |-> Return([t |-> "str", v |-> 0, s |-> Decode(r.got)]),
            held   |-> Blocked(r.got # <<>> /\ r.got[Len(r.got)] = Ord("\n"), w),
            sent   |-> FALSE], x)

recall(setting, line) == send("recall", PyInt(setting), 0, RCL \o Format(PyInt(setting)), line)

save(setting, line) == send("save", PyInt(setting), 0, SAV \o Format(PyInt(setting)), line)

ocp(setting, line) == send("ocp", setting, 0, OCP \o Format(setting), line)

OcpSettings == {PyInt(1), PyInt(0), PyBool(TRUE), PyBool(FALSE)}

(***************************************************************************)
(* KoradPS.__init__ and the specification with the supply on an echo line. *)
(***************************************************************************)
NoOp == [op |-> "init", val |-> PyNone, channel |-> 0, io |-> <<>>,
         result |-> Return(PyNone), sent |-> FALSE, gap |-> -1, answer |-> <<>>]

NoFeed == [kind |-> "none", bytes |-> <<>>]

InitSession ==
  /\ responseTime = ResponseTimeMs
  /\ inbuf = <<>>
  /\ dev = [vset |-> [c \in Channels |-> 0], iset |-> [c \in Channels |-> 0]]
  /\ sinceSet = -1
  /\ lastOp = NoOp
  /\ hist = [vset |-> [c \in Channels |-> PyNone], iset |-> [c \in Channels |-> PyNone]]

Init == InitSession /\ feed = NoFeed

Next ==
  \/ \E x \in SetValues \cup {PyNone}, c \in Channels : iset(x, c, EchoLine(<<>>))
  \/ \E x \in SetValues \cup {PyNone}, c \in Channels : vset(x, c, EchoLine(<<>>))
  \/ \E c \in Channels, m \in MeasValues : iout(c, EchoLine(DeviceFormat(m)))
  \/ \E c \in Channels, m \in MeasValues : vout(c, EchoLine(DeviceFormat(m)))
  \/ on(EchoLine(<<>>))
  \/ off(EchoLine(<<>>))
  \/ \E st \in StatusAnswers : status(EchoLine(st))
  \/ id(EchoLine(<<>>))
  \/ \E n \in Slots : recall(n, EchoLine(<<>>))
  \/ \E n \in Slots : save(n, EchoLine(<<>>))
  \/ \E x \in OcpSettings : ocp(x, EchoLine(<<>>))

Spec == Init /\ [][Next]_vars

(***************************************************************************)
(* One method call on a faulty line: the line delivers any text of up to   *)
(* ReadLen payload characters to a measurement query, any zero to          *)
(* StatusLen bytes to status(), any beginning of the identification line   *)
(* to id(), and nothing to the other methods.                              *)
(***************************************************************************)
PayloadChars == {"0", "3", "5", ".", " ", "n", "a"}

SeqsUpTo(S, n) == UNION {[1..k -> S] : k \in 0..n}

TextFeed(t)   == [kind |-> "text", bytes |-> Encode(t)]
StatusFeed(b) == [kind |-> "status", bytes |-> b]
LineFeed(k)   == [kind |-> "line", bytes |-> SubSeq(IdLine, 1, k)]

InitFaulty ==
  /\ InitSession
  /\ \/ \E t \in SeqsUpTo(PayloadChars, ReadLen) : feed = TextFeed(t)
     \/ \E b \in SeqsUpTo(0..255, StatusLen) : feed = StatusFeed(b)
     \/ \E k \in 0..Len(IdLine) : feed = LineFeed(k)
     \/ feed = NoFeed

\* no method has been called yet
Fresh(kind) == lastOp.op = "init" /\ feed.kind = kind

NextFaulty ==
  \/ Fresh("text") /\ \E c \in Channels : iset(PyNone, c, FaultyLine(feed.bytes))
  \/ Fresh("text") /\ \E c \in Channels : vset(PyNone, c, FaultyLine(feed.bytes))
  \/ Fresh("text") /\ \E c \in Channels : iout(c, FaultyLine(feed.bytes))
  \/ Fresh("text") /\ \E c \in Channels : vout(c, FaultyLine(feed.bytes))
  \/ Fresh("status") /\ status(FaultyLine(feed.bytes))
  \/ Fresh("line") /\ id(FaultyLine(feed.bytes))
  \/ Fresh("none") /\ \E x \in SetValues, c \in Channels : iset(x, c, FaultyLine(<<>>))
  \/ Fresh("none") /\ \E x \in SetValues, c \in Channels : vset(x, c, FaultyLine(<<>>))
  \/ Fresh("none") /\ on(FaultyLine(<<>>))
  \/ Fresh("none") /\ off(FaultyLine(<<>>))
  \/ Fresh("none") /\ \E n \in Slots : recall(n, FaultyLine(<<>>))
  \/ Fresh("none") /\ \E n \in Slots : save(n, FaultyLine(<<>>))
  \/ Fresh("none") /\ \E x \in OcpSettings : ocp(x, FaultyLine(<<>>))

SpecFaulty == InitFaulty /\ [][NextFaulty]_vars

(***************************************************************************)
(* What the last method call did, for the properties below.                *)
(***************************************************************************)
\* the text of the one command the call wrote
WroteText == Decode(lastOp.io[1].bytes)

HasRead == Len(lastOp.io) = 2 /\ lastOp.io[2].dir = "read"

\* the bytes the call's read returned
Got == lastOp.io[2].bytes

IsSetCall   == lastOp.op \in {"iset", "vset"} /\ lastOp.val # PyNone
IsLimitQuery == lastOp.op \in {"iset", "vset"} /\ lastOp.val = PyNone
IsMeasure   == IsLimitQuery \/ lastOp.op \in {"iout", "vout"}

Verb(op) == CASE op = "iset" -> ISET [] op = "vset" -> VSET
              [] op = "iout" -> IOUT [] OTHER -> VOUT

\* text is prefix followed by a plain decimal numeral worth u units
IsPrefixThenNumber(text, prefix, u) ==
  /\ Len(text) > Len(prefix)
  /\ SubSeq(text, 1, Len(prefix)) = prefix
  /\ IsFloatNumber(SubSeq(text, Len(prefix) + 1, Len(text)))
  /\ FloatNumberUnits(SubSeq(text, Len(prefix) + 1, Len(text))) = u

(***************************************************************************)
(* C1: iset(amps, ch) and vset(volts, ch) with a value, 0 included, write  *)
(* exactly ISET<ch>:<amps> and VSET<ch>:<volts>; on() and off() write      *)
(* exactly OUT1 and OUT0, recall(n) and save(n) exactly RCL<n> and SAV<n>; *)
(* none of them reads from the port.                                       *)
(***************************************************************************)
C1_SetCommandsExact ==
  /\ IsSetCall =>
       /\ Len(lastOp.io) = 1 /\ lastOp.io[1].dir = "write"
       /\ IsPrefixThenNumber(WroteText,
                             Verb(lastOp.op) \o NatStr(lastOp.channel) \o <<":">>,
                             Units(lastOp.val))
  /\ lastOp.op = "on" => lastOp.io = <<Write(Encode(<<"O", "U", "T", "1">>))>>
  /\ lastOp.op = "off" => lastOp.io = <<Write(Encode(<<"O", "U", "T", "0">>))>>
  /\ lastOp.op = "recall" => lastOp.io = <<Write(Encode(RCL \o NatStr(lastOp.val.v)))>>
  /\ lastOp.op = "save" => lastOp.io = <<Write(Encode(SAV \o NatStr(lastOp.val.v)))>>

\* iset(0, 2) has written ISET2:0
C1_Witness ==
  /\ lastOp.op = "iset" /\ lastOp.val = PyInt(0) /\ lastOp.channel = 2
  /\ lastOp.io = <<Write(Encode(<<"I", "S", "E", "T", "2", ":", "0">>))>>

(***************************************************************************)
(* C2: a command written by send() is followed by the response delay: the  *)
(* call does not return before responseTime has passed, and whatever call  *)
(* comes next writes its command responseTime or more after that one.      *)
(***************************************************************************)
C2_DelayAfterSend ==
  /\ lastOp.sent => sinceSet >= responseTime
  /\ lastOp.gap >= 0 => lastOp.gap >= responseTime

\* a query written after a set command, the delay having passed
C2_Witness ==
  /\ lastOp.op = "vout" /\ lastOp.gap >= ResponseTimeMs /\ ResponseTimeMs > 0

(***************************************************************************)
(* C3: a measurement query whose read returns fewer than five bytes fails; *)
(* it returns no number built from the partial bytes.                      *)
(***************************************************************************)
C3_ShortReadFails ==
  (IsMeasure /\ HasRead /\ Len(Got) < ReadLen) => lastOp.result.kind = "raise"

(***************************************************************************)
(* C4: status() on two bytes returns the mode from bit 0 of the first byte *)
(* (CC for 0, CV for 1) and the output state from bit 0 of the second (OFF *)
(* for 0, ON for 1), so mode bit 0 with output bit 1 reads CC and ON.      *)
(***************************************************************************)
C4_StatusTwoBits ==
  (lastOp.op = "status" /\ Len(Got) = StatusLen) =>
    lastOp.result = Return(StatusReading(IF Got[1] % 2 = 0 THEN "CC" ELSE "CV",
                                         IF Got[2] % 2 = 0 THEN "OFF" ELSE "ON"))

(***************************************************************************)
(* C5: status() writes STATUS?, asks for two bytes, and returns a reading  *)
(* without raising for every two-byte response.                            *)
(***************************************************************************)
C5_StatusNeverRaises ==
  lastOp.op = "status" =>
    /\ lastOp.io[1] = Write(Encode(STATUS))
    /\ HasRead /\ lastOp.io[2].n = StatusLen
    /\ Len(Got) = StatusLen => lastOp.result.kind = "return"

(***************************************************************************)
(* C6: a measurement query writes exactly ISET<ch>?, VSET<ch>?, IOUT<ch>?  *)
(* or VOUT<ch>?, asks for five bytes, returns the number the five bytes    *)
(* spell as a decimal, and fails when they spell no decimal number.        *)
(***************************************************************************)
\* a plain decimal numeral, whitespace around it allowed
IsAsciiDecimal(text) == IsFloatNumber(Strip(text))

C6_QueryParsesDecimal ==
  IsMeasure =>
    /\ lastOp.io[1] = Write(Encode(Verb(lastOp.op) \o NatStr(lastOp.channel) \o <<"?">>))
    /\ HasRead /\ lastOp.io[2].n = ReadLen
    /\ Len(Got) = ReadLen =>
         IF IsAsciiDecimal(Decode(Got))
         THEN lastOp.result = Return(PyFloat(FloatNumberUnits(Strip(Decode(Got)))))
         ELSE lastOp.result.kind = "raise"

(***************************************************************************)
(* C7: ocp(enabled) writes exactly OCP1 when enabled is true or left out   *)
(* and exactly OCP0 when it is false, waits the response delay and reads   *)
(* nothing.                                                                *)
(***************************************************************************)
C7_OcpWritesOneOrZero ==
  lastOp.op = "ocp" =>
    /\ lastOp.io = <<Write(Encode(OCP \o (IF lastOp.val.v = 1 THEN <<"1">> ELSE <<"0">>)))>>
    /\ sinceSet >= responseTime

(***************************************************************************)
(* C8: with the supply echoing what it was set to, a limit query returns   *)
(* the value last passed to vset (iset) for that channel, whatever was     *)
(* done in between on other channels or with other commands.               *)
(***************************************************************************)
C8_RoundTrip ==
  (IsLimitQuery /\ hist[lastOp.op][lastOp.channel] # PyNone) =>
    /\ lastOp.result.kind = "return"
    /\ lastOp.result.val.t = "float"
    /\ lastOp.result.val.v = Units(hist[lastOp.op][lastOp.channel])

\* vset(channel=1) returns 2.5 after vset(2.5, 1), the other limits set to 0
C8_Witness ==
  /\ lastOp.op = "vset" /\ lastOp.val = PyNone /\ lastOp.channel = 1
  /\ hist.vset[1] = PyFloat(25000) /\ hist.vset[2] = PyInt(0) /\ hist.iset[1] = PyInt(0)
  /\ lastOp.result = Return(PyFloat(25000))

(***************************************************************************)
(* C9: every method call does exactly one write, first, and at most one    *)
(* read after it; a call that fails has done no second write and no second *)
(* read.                                                                   *)
(***************************************************************************)
C9_OneWriteAtMostOneRead ==
  lastOp.op # "init" =>
    /\ Len(lastOp.io) \in {1, 2}
    /\ lastOp.io[1].dir = "write"
    /\ Len(lastOp.io) = 2 => lastOp.io[2].dir = "read"

\* a measurement query that failed on its payload after one write and one read
C9_Witness ==
  /\ lastOp.op = "vout" /\ lastOp.result = Raise("ValueError")
  /\ Len(lastOp.io) = 2 /\ Len(Got) = ReadLen

(***************************************************************************)
(* C10: with the supply answering every measurement query with five bytes, *)
(* STATUS? with two, *IDN? with one line and set commands with nothing,    *)
(* the input buffer is empty at the end of every call and a call has read  *)
(* exactly the bytes the supply sent in answer to its own command.         *)
(***************************************************************************)
C10_BufferInStep ==
  /\ inbuf = <<>>
  /\ HasRead => Got = lastOp.answer
  /\ (lastOp.op # "init" /\ ~HasRead) => lastOp.answer = <<>>

\* a limit query, made after a set command, has read its own five bytes
C10_Witness ==
  /\ lastOp.op = "iset" /\ HasRead /\ Len(Got) = ReadLen /\ lastOp.gap >= 0
  /\ inbuf = <<>>

====
